---------------------------- MODULE Spec2Model ----------------------------
(***************************************************************************)
(* Validator Set pallet (chain/pallets/validator-set/src/lib.rs).          *)
(*                                                                         *)
(* The pallet keeps two storage items, Validators (Option<Vec<AccountId>>) *)
(* and Flag (bool), offers the dispatchables add_validator and             *)
(* remove_validator, and implements the session pallet's ShouldEndSession  *)
(* and SessionManager traits.  The session pallet itself (the "Session     *)
(* Authority") is not part of the repository's sources; its rotation is    *)
(* modelled from the specification's description (one-epoch queuing lag).  *)
(***************************************************************************)
EXTENDS Integers, Sequences, FiniteSets, TLC

\* ------------------------------------------------------------------ bounds
MaxLen     == 3   \* longest registry the model lets add_validator build
MaxEvents  == 3   \* longest event stream (= number of successful calls)

Ids     == 1..3            \* AccountIds; the code only compares them
Origins == {"Root", "Signed"}
Blocks  == {0, 1}          \* block numbers / session indices handed to callbacks

\* ------------------------------------------------------------ Option<Vec>
None      == <<>>
Some(v)   == <<v>>
IsSome(o) == o # None
Unwrap(o) == o[1]

\* ---------------------------------------------------------------- helpers
Range(s)    == {s[k] : k \in 1..Len(s)}
Count(s, x) == Cardinality({k \in 1..Len(s) : s[k] = x})
NoDup(s)    == \A i, j \in 1..Len(s) : s[i] = s[j] => i = j
SeqsUpTo(n) == UNION {[1..k -> Ids] : k \in 0..n}

VARIABLES
    validators,  \* storage Validators: Option<Vec<AccountId>>
    Flag,        \* storage Flag: bool
    events,      \* the event stream deposited by deposit_event
    active,      \* Session Authority: the validator set in force
    queued,      \* Session Authority: the validator set queued for the next session
    last,        \* the last entry-point call, its arguments and its result
    hist         \* history of the calls made so far (see HistInit)

vars == <<validators, Flag, events, active, queued, last, hist>>

\* ----------------------------------------------------------------- events
ValidatorAdded(id)   == <<"ValidatorAdded", id>>
ValidatorRemoved(id) == <<"ValidatorRemoved", id>>

\* ----------------------------------------------------------------- errors
Ok           == "Ok"
BadOrigin    == "BadOrigin"      \* ensure_root failed
NoValidators == "NoValidators"   \* Error::<T>::NoValidators
Panic        == "Panic"          \* the dispatch aborted (index out of bounds)

\* Mutant: every origin passes the root check.
ensure_root_Any(origin) == TRUE
ensure_root(origin) == origin = "Root"

\* Self::validators().ok_or(Error::<T>::NoValidators): the list, or the error.
\* Mutant: a missing list is taken to be the empty list (unwrap_or_default).
ok_or_Default(o) == [ok |-> TRUE, v |-> IF IsSome(o) THEN Unwrap(o) ELSE <<>>]
ok_or(o) == [ok |-> IsSome(o), v |-> IF IsSome(o) THEN Unwrap(o) ELSE <<>>]

\* Vec::push
\* Mutant: an identity already in the list is not pushed again.
Push_Unique(v, x) == IF \E k \in 1..Len(v) : v[k] = x THEN v ELSE Append(v, x)
Push(v, x) == Append(v, x)

\* Vec::swap_remove(i), i 0-based in the source, 1-based here: the element at
\* i is replaced by the last element and the vector shrinks by one.
\* Mutant: the first element is dropped, whatever the index.
swap_remove_First(v, i) == Tail(v)
\* Mutant: the element at i is taken out and the order kept (Vec::remove).
swap_remove_Ordered(v, i) ==
    [k \in 1..(Len(v) - 1) |-> IF k < i THEN v[k] ELSE v[k + 1]]
swap_remove(v, i) ==
    [k \in 1..(Len(v) - 1) |-> IF k = i THEN v[Len(v)] ELSE v[k]]

\* The loop of remove_validator: it walks a clone of the list taken before
\* the loop (orig) and calls swap_remove on the working list (v) with the
\* clone's index.  swap_remove panics when the index is out of bounds.
\* Mutant: the loop stops after the first removal (a break).
RECURSIVE RemoveLoop_Break(_, _, _, _)
RemoveLoop_Break(orig, v, id, i) ==
    IF i > Len(orig) THEN [panic |-> FALSE, v |-> v]
    ELSE IF orig[i] = id
         THEN [panic |-> FALSE, v |-> swap_remove(v, i)]
         ELSE RemoveLoop_Break(orig, v, id, i + 1)
\* Mutant: an identity that is not in the list aborts the call.
RECURSIVE RemoveLoop_Strict(_, _, _, _)
RemoveLoop_Strict(orig, v, id, i) ==
    IF i > Len(orig) THEN [panic |-> Len(v) = Len(orig), v |-> v]
    ELSE IF orig[i] = id
         THEN IF i > Len(v)
              THEN [panic |-> TRUE, v |-> v]
              ELSE RemoveLoop_Strict(orig, swap_remove(v, i), id, i + 1)
         ELSE RemoveLoop_Strict(orig, v, id, i + 1)
RECURSIVE RemoveLoop(_, _, _, _)
RemoveLoop(orig, v, id, i) ==
    IF i > Len(orig) THEN [panic |-> FALSE, v |-> v]
    ELSE IF orig[i] = id
         THEN IF i > Len(v)
              THEN [panic |-> TRUE, v |-> v]
              ELSE RemoveLoop(orig, swap_remove(v, i), id, i + 1)
         ELSE RemoveLoop(orig, v, id, i + 1)

\* ------------------------------------------------- session trait callbacks
\* ShouldEndSession::should_end_session(_now): reads Flag.
\* Mutant: the poll never asks for a rotation.
should_end_session_Never(flag, now) == FALSE
\* Mutant: the poll always asks for a rotation.
should_end_session_Always(flag, now) == TRUE
should_end_session(flag, now) == flag

\* SessionManager::new_session(_new_index): Flag::put(false), returns
\* Self::validators().
\* Mutant: new_session leaves Flag as it is.
NewSessionFlag_Keep(flag, index) == flag
NewSessionFlag(flag, index)   == FALSE
\* Mutant: new_session hands back no list.
NewSessionResult_None(vals, index) == None
\* Mutant: new_session hands back the list without its last element.
NewSessionResult_Front(vals, index) ==
    IF IsSome(vals) /\ Len(Unwrap(vals)) > 0
    THEN Some(SubSeq(Unwrap(vals), 1, Len(Unwrap(vals)) - 1)) ELSE vals
NewSessionResult(vals, index) == vals

\* start_session / end_session: empty bodies.
StartSessionFlag(flag, index) == flag
EndSessionFlag(flag, index)   == flag

\* ------------------------------------------------------- Session Authority
\* session::Module::rotate_session as the specification describes it: the
\* queued set becomes active, and the set returned by new_session is queued
\* (None means "no change").  It calls end_session, start_session and
\* new_session of the pallet.  st = [vals, flag, active, queued, ret].
RotateSession(st, index) ==
    LET f1  == EndSessionFlag(st.flag, index)
        f2  == StartSessionFlag(f1, index)
        ret == NewSessionResult(st.vals, index)
        f3  == NewSessionFlag(f2, index)
    IN  [vals   |-> st.vals,
         flag   |-> f3,
         active |-> st.queued,
         queued |-> IF IsSome(ret) THEN Unwrap(ret) ELSE st.queued,
         ret    |-> ret]

\* The rotation request of add_validator / remove_validator: honoured
\* (rotate_session runs synchronously) or dropped by the Authority.
RequestRotation(st, honored) ==
    IF honored THEN RotateSession(st, 0) ELSE [st EXCEPT !.ret = None]

\* Flag::put(true), the last statement of add_validator / remove_validator;
\* flag is the value of Flag when it runs.
\* Mutant: the statement is missing.
FlagPutTrue_Missing(flag) == flag
FlagPutTrue(flag) == TRUE

\* ---------------------------------------------------------------- history
\* mutSinceNS   : a registry write happened after the last new_session call
\* mutSincePoll : a successful add/remove returned after the last new_session
\*                call made outside add/remove
\* lastMut      : fate of the rotation request of the last successful
\*                add/remove ("none" before the first one)
\* rotSinceMut  : rotations driven by should_end_session since the last
\*                successful add/remove (saturates at 2)
\* clears       : Pending -> Idle transitions of Flag, seen between calls,
\*                since the last successful add/remove (saturates at 2)
\* muts         : successful add/remove calls since the last new_session call
\*                made outside add/remove (saturates at 2)
Sat(n) == IF n < 2 THEN n + 1 ELSE 2

\* cleared      : the value of muts when Flag last went Pending -> Idle after
\*                the last successful add/remove (0 if it has not yet)
\* rt           : progress of an add(C)/remove(C) round trip on a duplicate-free
\*                registry R without C: "added" after the add, "done" after
\*                the remove that follows it
HistInit ==
    [mutSinceNS |-> FALSE, mutSincePoll |-> FALSE, lastMut |-> "none",
     rotSinceMut |-> 0, clears |-> 0, muts |-> 0, cleared |-> 0,
     rt |-> [st |-> "none", R |-> <<>>, id |-> 0]]

\* The record of a call: res is its result, snap the value new_session
\* returned during it (None if it was not called), rotate the fate of the
\* rotation it requested, mid the value of Flag right after that request,
\* evs the number of events deposited before that request (0 without one).
Call(op, origin, id, res, snap, rotate, mid, evs) ==
    [op |-> op, origin |-> origin, id |-> id, res |-> res, snap |-> snap,
     rotate |-> rotate, mid |-> mid, evs |-> evs]

\* History of a new_session call made outside add/remove.
HistNewSession(h, flag, flag2, rotated) ==
    [h EXCEPT !.mutSinceNS = FALSE, !.mutSincePoll = FALSE, !.muts = 0,
              !.rotSinceMut = IF rotated THEN Sat(h.rotSinceMut) ELSE h.rotSinceMut,
              !.clears = IF flag /\ ~flag2 THEN Sat(h.clears) ELSE h.clears,
              !.cleared = IF flag /\ ~flag2 THEN h.muts ELSE h.cleared]

\* History of a successful add/remove on registry R.
HistMutation(h, op, id, R, honored) ==
    [h EXCEPT !.mutSinceNS = ~honored,
              !.mutSincePoll = TRUE,
              !.lastMut = IF honored THEN "honored" ELSE "dropped",
              !.rotSinceMut = 0,
              !.clears = 0,
              !.cleared = 0,
              !.muts = Sat(h.muts),
              !.rt = IF op = "add_validator" /\ NoDup(R) /\ id \notin Range(R)
                     THEN [st |-> "added", R |-> R, id |-> id]
                     ELSE IF op = "remove_validator" /\ h.rt.st = "added" /\ h.rt.id = id
                     THEN [h.rt EXCEPT !.st = "done"]
                     ELSE [st |-> "none", R |-> <<>>, id |-> 0]]

\* ------------------------------------------------------------------- Init
\* The genesis configurations: no list, or a duplicate-free list (one list
\* for each length up to two; the code treats all identities alike).
GenesisConfig == {None, Some(<<>>), Some(<<1>>), Some(<<1, 2>>)}

\* Genesis: Validators is config(): either absent (None) or the configured
\* duplicate-free list; Flag defaults to false; the Authority starts with the
\* genesis list both active and queued.
Init ==
    /\ validators \in GenesisConfig
    /\ Flag = FALSE
    /\ events = <<>>
    /\ active = (IF IsSome(validators) THEN Unwrap(validators) ELSE <<>>)
    /\ queued = active
    /\ last = Call("genesis", "None", 0, Ok, None, "none", FALSE, 0)
    /\ hist = HistInit

\* -------------------------------------------------------------- dispatches
\* The common tail of a successful add_validator / remove_validator:
\* <Validators<T>>::put(v); rotate_session(); deposit_event(ev); Flag::put(true)
\* Mutant: Flag::put(true) runs before rotate_session().
Commit_FlagFirst(op, origin, id, v, ev, honored) ==
    LET st0 == [vals |-> Some(v), flag |-> FlagPutTrue(Flag), active |-> active,
                queued |-> queued, ret |-> None]
        st1 == RequestRotation(st0, honored)
    IN  /\ validators' = st1.vals
        /\ active' = st1.active
        /\ queued' = st1.queued
        /\ events' = Append(events, ev)
        /\ Flag' = st1.flag
        /\ last' = Call(op, origin, id, Ok, st1.ret,
                        IF honored THEN "honored" ELSE "dropped", st1.flag, Len(events))
        /\ hist' = HistMutation(hist, op, id, ok_or(validators).v, honored)
Commit(op, origin, id, v, ev, honored) ==
    LET st0 == [vals |-> Some(v), flag |-> Flag, active |-> active, queued |-> queued,
                ret |-> None]
        st1 == RequestRotation(st0, honored)
    IN  /\ validators' = st1.vals
        /\ active' = st1.active
        /\ queued' = st1.queued
        /\ events' = Append(events, ev)
        /\ Flag' = FlagPutTrue(st1.flag)
        /\ last' = Call(op, origin, id, Ok, st1.ret,
                        IF honored THEN "honored" ELSE "dropped", st1.flag, Len(events))
        /\ hist' = HistMutation(hist, op, id, ok_or(validators).v, honored)

\* A dispatch that returns an error (or aborts) before writing anything.
Reject(op, origin, id, err) ==
    /\ last' = Call(op, origin, id, err, None, "none", Flag, 0)
    /\ UNCHANGED <<validators, Flag, events, active, queued, hist>>

add_validator(origin, validator_id, honored) ==
    IF ~ensure_root(origin) THEN Reject("add_validator", origin, validator_id, BadOrigin)
    ELSE IF ~ok_or(validators).ok
    THEN Reject("add_validator", origin, validator_id, NoValidators)
    ELSE /\ Len(ok_or(validators).v) < MaxLen
         /\ Len(events) < MaxEvents
         /\ Commit("add_validator", origin, validator_id,
                   Push(ok_or(validators).v, validator_id),
                   ValidatorAdded(validator_id), honored)

remove_validator(origin, validator_id, honored) ==
    IF ~ensure_root(origin) THEN Reject("remove_validator", origin, validator_id, BadOrigin)
    ELSE IF ~ok_or(validators).ok
    THEN Reject("remove_validator", origin, validator_id, NoValidators)
    ELSE LET r == RemoveLoop(ok_or(validators).v, ok_or(validators).v, validator_id, 1)
         IN  IF r.panic THEN Reject("remove_validator", origin, validator_id, Panic)
             ELSE /\ Len(events) < MaxEvents
                  /\ Commit("remove_validator", origin, validator_id, r.v,
                            ValidatorRemoved(validator_id), honored)

\* The dispatchables as built: rotate_session() is a direct call.
AddValidator    == \E o \in Origins, id \in Ids : add_validator(o, id, TRUE)
RemoveValidator == \E o \in Origins, id \in Ids : remove_validator(o, id, TRUE)

\* The administrator's calls against an Authority that treats the rotation
\* request as best effort: it may drop it.
AddValidatorBestEffort ==
    \E id \in Ids, h \in BOOLEAN : add_validator("Root", id, h)
RemoveValidatorBestEffort ==
    \E id \in Ids, h \in BOOLEAN : remove_validator("Root", id, h)

\* ------------------------------------------------- callbacks, called alone
ShouldEndSession ==
    \E now \in Blocks :
        /\ last' = Call("should_end_session", "None", 0,
                        IF should_end_session(Flag, now) THEN "true" ELSE "false",
                        None, "none", Flag, 0)
        /\ UNCHANGED <<validators, Flag, events, active, queued, hist>>

NewSession ==
    \E index \in Blocks :
        /\ Flag' = NewSessionFlag(Flag, index)
        /\ last' = Call("new_session", "None", 0, Ok, NewSessionResult(validators, index),
                        "none", NewSessionFlag(Flag, index), 0)
        /\ hist' = HistNewSession(hist, Flag, NewSessionFlag(Flag, index), FALSE)
        /\ UNCHANGED <<validators, events, active, queued>>

StartSession ==
    \E index \in Blocks :
        /\ Flag' = StartSessionFlag(Flag, index)
        /\ last' = Call("start_session", "None", 0, Ok, None, "none",
                        StartSessionFlag(Flag, index), 0)
        /\ UNCHANGED <<validators, events, active, queued, hist>>

EndSession ==
    \E index \in Blocks :
        /\ Flag' = EndSessionFlag(Flag, index)
        /\ last' = Call("end_session", "None", 0, Ok, None, "none",
                        EndSessionFlag(Flag, index), 0)
        /\ UNCHANGED <<validators, events, active, queued, hist>>

\* ------------------------------------------------ the Authority's own poll
\* Each block the Authority asks should_end_session(now) and rotates the
\* session when the answer is true.
Poll ==
    \E now \in Blocks :
        LET end == should_end_session(Flag, now)
            st0 == [vals |-> validators, flag |-> Flag, active |-> active, queued |-> queued,
                    ret |-> None]
            st1 == IF end THEN RotateSession(st0, now) ELSE st0
        IN  /\ Flag' = st1.flag
            /\ active' = st1.active
            /\ queued' = st1.queued
            /\ last' = Call("on_initialize", "None", 0, IF end THEN "true" ELSE "false",
                            st1.ret, IF end THEN "honored" ELSE "none", st1.flag,
                            IF end THEN Len(events) ELSE 0)
            /\ hist' = IF end THEN HistNewSession(hist, Flag, st1.flag, TRUE) ELSE hist
            /\ UNCHANGED <<validators, events>>

\* --------------------------------------------------------- specifications
\* Spec: the pallet under any sequence of entry-point calls.
Next ==
    \/ AddValidator
    \/ RemoveValidator
    \/ ShouldEndSession
    \/ NewSession
    \/ StartSession
    \/ EndSession
    \/ Poll

Spec == Init /\ [][Next]_vars

\* AuthSpec: the pallet driven by the Session Authority alone, which polls
\* should_end_session on every block (weak fairness of Poll), calls
\* new_session only as part of a rotation, and may drop a rotation request.
NextAuth ==
    \/ AddValidatorBestEffort
    \/ RemoveValidatorBestEffort
    \/ Poll

AuthSpec == Init /\ [][NextAuth]_vars /\ WF_vars(Poll)

TypeOK ==
    /\ validators \in {None} \cup {Some(s) : s \in SeqsUpTo(MaxLen)}
    /\ Flag \in BOOLEAN
    /\ Len(events) <= MaxEvents
    /\ active \in SeqsUpTo(MaxLen)
    /\ queued \in SeqsUpTo(MaxLen)


\* ------------------------------------------------------ steps, by their kind
\* The step just taken was a call of add_validator or remove_validator.
IsDispatch    == last'.op \in {"add_validator", "remove_validator"}
\* ... and it returned Ok.
IsMutation    == IsDispatch /\ last'.res = Ok
\* The step just taken called new_session outside add/remove.
IsNewSession  == \/ last'.op = "new_session"
                 \/ last'.op = "on_initialize" /\ last'.rotate = "honored"

\* C1: Signal lifecycle.  Flag is true right after every successful
\* add_validator / remove_validator, false right after every new_session call
\* (the one nested in an honoured rotation request included), and no other
\* call changes it.
C1_SignalLifecycle ==
    [][ /\ IsMutation => Flag'
        /\ IsMutation /\ last'.rotate = "honored" => ~last'.mid
        /\ IsNewSession => ~Flag'
        /\ Flag' # Flag => IsMutation \/ IsNewSession ]_vars

C1_Witness ==
    /\ last.op = "new_session"
    /\ hist.clears = 1
    /\ ~Flag

\* C2 as stated: Flag is true iff a registry write happened after the last
\* new_session call, the synchronous one inside add/remove included.
C2_Original == Flag = hist.mutSinceNS

\* C2 amended: Flag is true iff a successful add_validator / remove_validator
\* has completed after the last new_session call made outside add/remove; the
\* new_session nested in the call runs before Flag::put(true) and does not
\* count.
C2_FlagIffMutationSincePoll == Flag = hist.mutSincePoll

C2_Witness ==
    /\ last.op \in {"add_validator", "remove_validator"}
    /\ last.res = Ok
    /\ last.rotate = "honored"
    /\ ~hist.mutSinceNS
    /\ Flag

\* C5: Authorization boundary.  A call of add_validator / remove_validator
\* with a non-root origin returns BadOrigin, leaves Validators, Flag and the
\* event stream as they were and requests no rotation.
C5_AuthorizationBoundary ==
    [][ IsDispatch /\ last'.origin # "Root" =>
            /\ last'.res = BadOrigin
            /\ last'.rotate = "none"
            /\ UNCHANGED <<validators, Flag, events, active, queued>> ]_vars

C5_Witness ==
    /\ last.op = "add_validator"
    /\ last.origin = "Signed"
    /\ last.res = BadOrigin
    /\ IsSome(validators)
    /\ Len(Unwrap(validators)) < MaxLen

\* C6: Uninitialized guard.  With Validators = None, a root call of
\* add_validator / remove_validator returns NoValidators, leaves Validators
\* None and Flag unchanged, deposits no event and requests no rotation.
C6_UninitializedGuard ==
    [][ IsDispatch /\ last'.origin = "Root" /\ validators = None =>
            /\ last'.res = NoValidators
            /\ last'.rotate = "none"
            /\ validators' = None
            /\ UNCHANGED <<Flag, events, active, queued>> ]_vars

C6_Witness ==
    /\ last.op = "remove_validator"
    /\ last.origin = "Root"
    /\ last.res = NoValidators
    /\ validators = None

\* C7: Coalescing.  A successful add/remove made while Flag is already true
\* leaves it true; after two or more successful calls with no new_session
\* outside them Flag is true, the next such new_session takes it from true to
\* false in one step, and since the last successful call Flag has gone from
\* true to false at most once.
C7_Coalescing ==
    [][ /\ IsMutation /\ Flag => Flag'
        /\ hist'.muts >= 2 => Flag'
        /\ IsNewSession /\ hist.muts >= 2 =>
               Flag /\ ~Flag' /\ hist'.clears = 1 /\ hist'.cleared = hist.muts
        /\ hist'.clears <= 1 ]_vars

C7_Witness ==
    /\ hist.cleared = 2
    /\ hist.clears = 1
    /\ Len(events) >= 2
    /\ ~Flag

\* C8: Registry invariant.  Validators is None or a list without duplicate
\* identities.
C8_RegistryNoDup == IsSome(validators) => NoDup(Unwrap(validators))

\* C9: remove_validator(id), called by root on a registry that holds id
\* k >= 1 times, leaves a registry that holds id k-1 times and every other
\* identity as often as before.
C9_RemovesFirstOccurrence ==
    [][ /\ last'.op = "remove_validator"
        /\ last'.origin = "Root"
        /\ IsSome(validators)
        /\ Count(Unwrap(validators), last'.id) >= 1
        => /\ IsSome(validators')
           /\ \A x \in Ids :
                  Count(Unwrap(validators'), x) =
                      Count(Unwrap(validators), x) - (IF x = last'.id THEN 1 ELSE 0) ]_vars

\* C10: Add/remove round trip.  On a duplicate-free registry R without C, a
\* successful add_validator(C) followed by a successful remove_validator(C)
\* leaves a registry with the same set of identities as R.
C10_AddRemoveRoundTrip ==
    [][ /\ last'.op = "remove_validator"
        /\ last'.res = Ok
        /\ hist.rt.st = "added"
        /\ hist.rt.id = last'.id
        => /\ IsSome(validators')
           /\ Range(Unwrap(validators')) = Range(hist.rt.R) ]_vars

C10_Witness ==
    /\ last.op = "remove_validator"
    /\ last.res = Ok
    /\ hist.rt.st = "done"
    /\ Len(hist.rt.R) >= 1
    /\ IsSome(validators)
    /\ Range(Unwrap(validators)) = Range(hist.rt.R)

\* ------------------------------------------- double rotation (under AuthSpec)
\* The step just taken was a successful add/remove whose rotation request the
\* Authority honoured.
IsHonoredMutation == IsMutation /\ last'.rotate = "honored"

\* After a successful add/remove the Authority rotates at most once on its
\* polls, and it does rotate once (rotSinceMut starts again at 0 with every
\* successful add/remove).
OneSignalRotation(fate) ==
    /\ [](hist.lastMut = fate => hist.rotSinceMut <= 1)
    /\ (hist.lastMut = fate) ~> (hist.rotSinceMut = 1)

\* C3 as stated: after a successful add/remove whose rotation request is
\* honoured, the immediate rotation queues the updated registry and leaves
\* the active set as it was; the polling Authority then rotates exactly once
\* more, after which the active set is the registry and Flag is false.
C3_Original ==
    /\ [][ IsHonoredMutation =>
               queued' = Unwrap(validators') /\ active' = active ]_vars
    /\ OneSignalRotation("honored")
    /\ [](hist.lastMut = "honored" /\ hist.rotSinceMut = 1 =>
              active = Unwrap(validators) /\ ~Flag)

\* C3 amended: as above, except that the immediate rotation makes active the
\* set that was queued before the call (the previously active set only if no
\* earlier change was still queued).
C3_DoubleRotation ==
    /\ [][ IsHonoredMutation =>
               queued' = Unwrap(validators') /\ active' = queued ]_vars
    /\ OneSignalRotation("honored")
    /\ [](hist.lastMut = "honored" /\ hist.rotSinceMut = 1 =>
              active = Unwrap(validators) /\ ~Flag)

C3_Witness ==
    /\ hist.lastMut = "honored"
    /\ hist.rotSinceMut = 1
    /\ last.op = "on_initialize"
    /\ last.rotate = "honored"
    /\ Len(events) >= 2
    /\ active = Unwrap(validators)
    /\ ~Flag

BoolStr(b) == IF b THEN "true" ELSE "false"

\* C11: new_session(index), called alone or by the polling Authority, returns
\* the current value of Validators (None or the whole list in its order),
\* leaves Flag false and changes neither Validators nor the event stream.
C11_NewSessionSnapshot ==
    [][ IsNewSession =>
            /\ last'.snap = validators
            /\ ~Flag'
            /\ UNCHANGED <<validators, events>> ]_vars

C11_Witness ==
    /\ last.op = "new_session"
    /\ IsSome(validators)
    /\ Len(Unwrap(validators)) >= 2
    /\ last.snap = validators
    /\ Len(events) >= 1
    /\ ~Flag

\* C12: should_end_session(now) returns the value of Flag and changes no
\* state; from a new_session call made outside add/remove until the next
\* successful add/remove it returns false, so the Authority rotates at most
\* once on its polls for one successful add/remove.
C12_NoRotationLoop ==
    [][ /\ last'.op = "should_end_session" =>
               /\ last'.res = BoolStr(Flag)
               /\ UNCHANGED <<validators, Flag, events, active, queued>>
        /\ last'.op = "on_initialize" =>
               /\ last'.res = BoolStr(Flag)
               /\ (last'.rotate = "honored") = Flag
        /\ last'.op \in {"should_end_session", "on_initialize"} /\ ~hist.mutSincePoll =>
               last'.res = "false"
        /\ hist'.rotSinceMut <= 1 ]_vars

C12_Witness ==
    /\ last.op = "on_initialize"
    /\ last.res = "false"
    /\ hist.rotSinceMut = 1
    /\ Len(events) >= 1
    /\ ~Flag

\* C13: inside a successful add_validator / remove_validator the registry is
\* written, then the rotation is requested, then the event is deposited, then
\* Flag is set: the new_session called by the rotation returns the updated
\* registry, the event is not yet in the stream at that point, Flag is false
\* right after it and true when the call returns.
C13_SideEffectOrder ==
    [][ IsHonoredMutation =>
            /\ last'.snap = validators'
            /\ last'.evs = Len(events)
            /\ Len(events') = Len(events) + 1
            /\ ~last'.mid
            /\ Flag' ]_vars

C13_Witness ==
    /\ last.op = "remove_validator"
    /\ last.res = Ok
    /\ last.rotate = "honored"
    /\ last.snap = validators
    /\ last.evs = Len(events) - 1
    /\ active # Unwrap(validators)
    /\ ~last.mid
    /\ Flag

\* C14: a successful add_validator(id) on registry R leaves R with id
\* appended, whether or not id was in R, and deposits the one event
\* ValidatorAdded(id).
C14_AddAppends ==
    [][ last'.op = "add_validator" /\ last'.res = Ok =>
            /\ IsSome(validators)
            /\ validators' = Some(Append(Unwrap(validators), last'.id))
            /\ events' = Append(events, ValidatorAdded(last'.id)) ]_vars

C14_Witness ==
    /\ last.op = "add_validator"
    /\ last.res = Ok
    /\ IsSome(validators)
    /\ Count(Unwrap(validators), last.id) = 2
    /\ Unwrap(validators)[Len(Unwrap(validators))] = last.id
    /\ events[Len(events)] = ValidatorAdded(last.id)

\* C15: a root remove_validator(id) on a registry that does not hold id
\* returns Ok, leaves the list as it is, requests a rotation, deposits
\* ValidatorRemoved(id) and sets Flag.
C15_RemoveAbsent ==
    [][ /\ last'.op = "remove_validator"
        /\ last'.origin = "Root"
        /\ IsSome(validators)
        /\ last'.id \notin Range(Unwrap(validators))
        => /\ last'.res = Ok
           /\ validators' = validators
           /\ last'.rotate # "none"
           /\ events' = Append(events, ValidatorRemoved(last'.id))
           /\ Flag' ]_vars

C15_Witness ==
    /\ last.op = "remove_validator"
    /\ last.res = Ok
    /\ last.id = 3
    /\ validators = Some(<<1, 2>>)
    /\ events = <<ValidatorRemoved(3)>>
    /\ last.rotate = "honored"
    /\ Flag

\* C16: a successful remove_validator(id) on a duplicate-free registry R of
\* length n that holds id at index i leaves a list of length n-1 that has R's
\* last element at i (if i is not the last index) and R's elements elsewhere.
C16_SwapWithLast ==
    [][ /\ last'.op = "remove_validator"
        /\ last'.res = Ok
        /\ NoDup(Unwrap(validators))
        /\ last'.id \in Range(Unwrap(validators))
        => LET R  == Unwrap(validators)
               n  == Len(R)
               i  == CHOOSE k \in 1..n : R[k] = last'.id
               R2 == Unwrap(validators')
           IN  /\ Len(R2) = n - 1
               /\ \A k \in 1..(n - 1) : R2[k] = (IF k = i THEN R[n] ELSE R[k]) ]_vars

C16_Witness ==
    /\ last.op = "remove_validator"
    /\ last.res = Ok
    /\ last.id = 1
    /\ validators = Some(<<3, 2>>)
    /\ events = <<ValidatorAdded(3), ValidatorRemoved(1)>>

\* C17: only a successful add_validator / remove_validator changes
\* Validators; None stays None and a list never becomes None (removing the
\* last validator leaves the empty list).
C17_RegistryLifecycle ==
    [][ /\ validators' # validators => IsMutation
        /\ IsSome(validators') = IsSome(validators) ]_vars

C17_Witness ==
    /\ last.op = "remove_validator"
    /\ last.res = Ok
    /\ last.id = 1
    /\ validators = Some(<<>>)
    /\ events = <<ValidatorRemoved(1)>>
    /\ active = <<1>>

\* C18: remove_validator never calls swap_remove with an index outside the
\* working list, i.e. no call aborts.
C18_NoPanic == last.res # Panic

\* C19: after a remove_validator(id) that returned Ok the registry holds no
\* id, however often it held it before.
C19_RemovedIsGone ==
    [][ last'.op = "remove_validator" /\ last'.res = Ok =>
            /\ IsSome(validators')
            /\ last'.id \notin Range(Unwrap(validators')) ]_vars

C19_Witness ==
    /\ last.op = "remove_validator"
    /\ last.res = Ok
    /\ last.id = 1
    /\ validators = Some(<<2>>)
    /\ events = <<ValidatorAdded(1), ValidatorAdded(2), ValidatorRemoved(1)>>
    /\ active = <<1, 1, 2>>

=============================================================================
